---- MODULE Spec2Model ----
(***************************************************************************)
(* AloOttawa payment server (src/server.js): the Express route handlers    *)
(* that drive the payment processor (Stripe) and mirror the result into    *)
(* the document store (Firestore).  One action per route handler; every    *)
(* call a handler makes to the processor or to the store has an outcome    *)
(* (it returns or it throws) that is an input of the action.               *)
(***************************************************************************)
EXTENDS Integers, Sequences, FiniteSets, TLC

\* ------------------------------------------------------------------ bounds
MaxRequests == 2       \* requests handled over a behaviour of Spec
MaxLifecycle == 3      \* requests handled over a behaviour of SpecLifecycle
MaxTicks == 2          \* clock ticks over a behaviour

\* ------------------------------------------------------------ value spaces
UserIds == {1, 2}              \* the user documents the application may hold
CustomerIds == {1, 2}          \* the customer ids webhook events carry
SubscriptionIds == {1, 2}      \* the subscription ids clients ask to cancel
InvoiceIds == {1}              \* the invoices the processor reports on
NoCustomer == 0        \* null / absent stripeCustomerId
NoSubscription == 0    \* absent subscriptionId
NoTime == -1           \* absent timestamp field
TicksPerMs == 2        \* the clock is finer than the millisecond of a Date
CentsPerUnit == 100
NominalCents == 999    \* the fixed 9.99 written to payment_logs

PaymentMethodIds == {"pm_1"}
AmountsPaid == {NominalCents}
SubStatuses == {"incomplete", "active"}
AttachResults == {"ok", "already_attached", "error"}

VARIABLES
    users,          \* collection 'users': userId -> document
    savedCards,     \* userId -> sub-collection 'payment_methods'
    paymentLogs,    \* collection 'payment_logs'
    customers,      \* customers created at the processor (ids 1..customers)
    subscriptions,  \* subscriptions created at the processor (ids 1..subscriptions)
    subCancelAtPeriodEnd, \* processor subscriptions with cancel_at_period_end set
    webhookSecret,  \* process.env.STRIPE_WEBHOOK_SECRET is set
    now,            \* the clock
    handled,        \* history: the requests handled so far, with their outcome
    req,            \* the request in hand (NoRequest: the server is idle)
    res,            \* the response to it
    calls           \* the processor/store calls its handler made, with their outcomes

vars == <<users, savedCards, paymentLogs, customers, subscriptions,
          subCancelAtPeriodEnd, webhookSecret, now, handled, req, res, calls>>

store == <<users, savedCards, paymentLogs>>

\* ------------------------------------------------------------- documents
NewUserDoc(exists) ==
    [exists |-> exists,
     stripeCustomerId |-> NoCustomer,
     subscriptionId |-> NoSubscription,
     subscriptionStatus |-> "none",
     cancelAtPeriodEnd |-> FALSE,
     subscriptionUpdatedAt |-> NoTime,
     updatedAt |-> NoTime,
     lastPayment |-> NoTime,
     subscriptionEndedAt |-> NoTime,
     paymentHistory |-> <<>>]

\* admin.firestore.FieldValue.serverTimestamp()
ServerTimestamp == now

\* new Date().toISOString(): the time cut to the millisecond
IsoDate(t) == t \div TicksPerMs

\* invoice.amount_paid / 100
MajorUnits(cents) == [units |-> cents \div CentsPerUnit, cents |-> cents % CentsPerUnit]

Range(s) == {s[i] : i \in 1..Len(s)}

\* faulty variant of ArrayUnion: a plain append, as Array.prototype.push would do
ArrayUnion_Append(arr, e) == Append(arr, e)

\* admin.firestore.FieldValue.arrayUnion(e): appended unless an equal element is there
ArrayUnion(arr, e) == IF e \in Range(arr) THEN arr ELSE Append(arr, e)

\* ------------------------------------------------- calls and their outcomes
\* index of the first call of the plan that throws, 0 when none does
FailIndex(plan, failing) ==
    IF \E i \in 1..Len(plan) : plan[i] \in failing
    THEN CHOOSE i \in 1..Len(plan) :
            /\ plan[i] \in failing
            /\ \A j \in 1..(i-1) : plan[j] \notin failing
    ELSE 0

\* the calls a handler gets to make: a throw skips the rest of the try block
Executed(plan, failing) ==
    IF FailIndex(plan, failing) = 0 THEN plan
    ELSE SubSeq(plan, 1, FailIndex(plan, failing))

\* the call whose exception reaches the handler's catch ("" when none)
Thrown(plan, failing) ==
    IF FailIndex(plan, failing) = 0 THEN "" ELSE plan[FailIndex(plan, failing)]

\* the calls that returned
Returned(plan, failing) ==
    {plan[i] : i \in 1..Len(Executed(plan, failing))} \ {Thrown(plan, failing)}

\* the trace of a handler: each executed call with its outcome; swallowed
\* gives the outcome of the calls whose exception an inner catch swallows
Trace(plan, failing, swallowed) ==
    LET n == FailIndex(plan, failing)
    IN  [i \in 1..(IF n = 0 THEN Len(plan) ELSE n) |->
            [call |-> plan[i],
             result |-> IF i = n THEN "error"
                        ELSE IF plan[i] \in DOMAIN swallowed THEN swallowed[plan[i]]
                        ELSE "ok"]]

\* ------------------------------------------------------------- responses
NoResponse == [status |-> 0, type |-> "none", success |-> "absent", received |-> FALSE,
               error |-> "", customerId |-> NoCustomer, subscriptionId |-> NoSubscription,
               clientSecret |-> NoSubscription, subStatus |-> "", paymentMethods |-> "absent"]

\* res.json(body)
Json(body) == body @@ [NoResponse EXCEPT !.status = 200, !.type = "json"]

\* res.status(400).json({ success: false, error: error.message })
JsonError(message) ==
    [NoResponse EXCEPT !.status = 400, !.type = "json", !.success = "false", !.error = message]

\* faulty variant of WebhookError: the webhook catch answers like the other handlers
WebhookError_Json(message) == JsonError(message)

\* res.status(400).send(`Webhook Error: ${err.message}`)
WebhookError(message) ==
    [NoResponse EXCEPT !.status = 400, !.type = "text", !.error = message]

\* a request body that is not JSON
NotJson == [type |-> "", customer |-> NoCustomer, invoice |-> 0, amount_paid |-> 0]

\* the events the processor delivers: invoice events and the others
Events ==
    [type : {"invoice.payment_succeeded", "invoice.payment_failed"},
     customer : CustomerIds, invoice : InvoiceIds, amount_paid : AmountsPaid]
    \cup
    [type : {"customer.subscription.deleted", "customer.updated"},
     customer : CustomerIds, invoice : {0}, amount_paid : {0}]

Bodies == Events \cup {NotJson}

NoRequest == [route |-> "", userId |-> 0, subscriptionId |-> NoSubscription,
              paymentMethodId |-> "", saveCard |-> FALSE,
              signatureValid |-> FALSE, body |-> NotJson]

\* ------------------------------------------------------------------ Init
Init ==
    /\ \E exists \in BOOLEAN : users = (1 :> NewUserDoc(TRUE)) @@ (2 :> NewUserDoc(exists))
    /\ savedCards = [u \in UserIds |-> <<>>]
    /\ paymentLogs = <<>>
    /\ customers = 0
    /\ subscriptions = 0
    /\ subCancelAtPeriodEnd = {}
    /\ webhookSecret \in BOOLEAN
    /\ now = 0
    /\ handled = <<>>
    /\ req = NoRequest
    /\ res = NoResponse
    /\ calls = <<>>

\* the server takes a request when it is idle and answers it; the history
\* records the request with the response
Accept(request, response) ==
    /\ req = NoRequest
    /\ req' = request
    /\ res' = response
    /\ handled' = Append(handled, [request |-> request, response |-> response])

\* the response is sent: the request is over
Respond ==
    /\ req # NoRequest
    /\ req' = NoRequest
    /\ res' = NoResponse
    /\ calls' = <<>>
    /\ UNCHANGED <<users, savedCards, paymentLogs, customers, subscriptions,
                   subCancelAtPeriodEnd, webhookSecret, now, handled>>

\* ------------------------------------------- POST /api/create-subscription
CreateFailCalls ==
    {"none", "users.get", "customers.create", "customers.update",
     "subscriptions.create", "payment_intent.client_secret", "users.update",
     "paymentMethods.retrieve", "payment_methods.add", "payment_logs.add"}

\* faulty variant of CreatePlan: the customer is created even when the stored one is retrieved
CreatePlan_AlwaysCreate(existingCustomerId, retrieveOk, saveCard) ==
    <<"users.get">>
    \o (IF existingCustomerId # NoCustomer THEN <<"customers.retrieve">> ELSE <<>>)
    \o <<"customers.create", "paymentMethods.attach", "customers.update",
         "subscriptions.create", "payment_intent.client_secret", "users.update">>
    \o (IF saveCard THEN <<"paymentMethods.retrieve", "payment_methods.add">>
        ELSE <<>>)
    \o <<"payment_logs.add">>

\* faulty variant of CreatePlan: the user record is written before the subscription is created
CreatePlan_WriteFirst(existingCustomerId, retrieveOk, saveCard) ==
    <<"users.get">>
    \o (IF existingCustomerId # NoCustomer
        THEN <<"customers.retrieve">>
             \o (IF retrieveOk THEN <<>> ELSE <<"customers.create">>)
        ELSE <<"customers.create">>)
    \o <<"paymentMethods.attach", "customers.update", "users.update",
         "subscriptions.create", "payment_intent.client_secret">>
    \o (IF saveCard THEN <<"paymentMethods.retrieve", "payment_methods.add">>
        ELSE <<>>)
    \o <<"payment_logs.add">>

\* the calls of the try block, in order, when none throws
CreatePlan(existingCustomerId, retrieveOk, saveCard) ==
    <<"users.get">>
    \o (IF existingCustomerId # NoCustomer
        THEN <<"customers.retrieve">>
             \o (IF retrieveOk THEN <<>> ELSE <<"customers.create">>)
        ELSE <<"customers.create">>)
    \o <<"paymentMethods.attach", "customers.update", "subscriptions.create",
         "payment_intent.client_secret", "users.update">>
    \o (IF saveCard THEN <<"paymentMethods.retrieve", "payment_methods.add">>
        ELSE <<>>)
    \o <<"payment_logs.add">>

\* the outcomes the inner catch blocks swallow: the retrieve of the stored
\* customer and the attach of the payment method
CreateSwallowed(retrieveOk, attachResult) ==
    ("customers.retrieve" :> (IF retrieveOk THEN "ok" ELSE "error"))
    @@ ("paymentMethods.attach" :> attachResult)

\* db.collection('users').doc(userId).update(...) throws when there is no document
StoreFailing(userId, failCall) ==
    {failCall} \cup (IF users[userId].exists THEN {} ELSE {"users.update"})

\* each outcome of the handler is drawn once: an input the handler never gets
\* to read (the outcome of a call it does not reach) is held at its first value
CreateInputs(plan, failing, retrieveOk, attachResult, subStatus, failCall) ==
    /\ failCall \in {"none", Thrown(plan, failing)}
    /\ "customers.retrieve" \notin Range(Executed(plan, failing)) => retrieveOk
    /\ "paymentMethods.attach" \notin Range(Executed(plan, failing)) => attachResult = "ok"
    /\ "subscriptions.create" \notin Returned(plan, failing) => subStatus = "incomplete"

CreateSubscription(userId, paymentMethodId, saveCard, retrieveOk, attachResult, subStatus, failCall) ==
    LET userDoc == users[userId]
        existingCustomerId ==
            IF userDoc.exists THEN userDoc.stripeCustomerId ELSE NoCustomer
        plan == CreatePlan(existingCustomerId, retrieveOk, saveCard)
        failing == StoreFailing(userId, failCall)
        ok == Returned(plan, failing)
        thrown == Thrown(plan, failing)
        customerId ==
            IF "customers.create" \in ok THEN customers + 1 ELSE existingCustomerId
        subscriptionId == subscriptions + 1
    IN  /\ CreateInputs(plan, failing, retrieveOk, attachResult, subStatus, failCall)
        /\ Accept([NoRequest EXCEPT !.route = "create-subscription",
                                    !.userId = userId,
                                    !.paymentMethodId = paymentMethodId,
                                    !.saveCard = saveCard],
                  IF thrown = ""
                  THEN Json([success |-> "true", subscriptionId |-> subscriptionId,
                             customerId |-> customerId, clientSecret |-> subscriptionId,
                             subStatus |-> subStatus])
                  ELSE JsonError(thrown))
        /\ customers' = IF "customers.create" \in ok THEN customers + 1 ELSE customers
        /\ subscriptions' =
              IF "subscriptions.create" \in ok THEN subscriptions + 1 ELSE subscriptions
        /\ users' =
              IF "users.update" \in ok
              THEN [users EXCEPT ![userId] =
                      [@ EXCEPT !.stripeCustomerId = customerId,
                                !.subscriptionId = subscriptionId,
                                !.subscriptionStatus = subStatus,
                                !.subscriptionUpdatedAt = ServerTimestamp]]
              ELSE users
        /\ savedCards' =
              IF "payment_methods.add" \in ok
              THEN [savedCards EXCEPT ![userId] =
                      Append(@, [paymentMethodId |-> paymentMethodId,
                                 isDefault |-> TRUE,
                                 createdAt |-> ServerTimestamp])]
              ELSE savedCards
        /\ paymentLogs' =
              IF "payment_logs.add" \in ok
              THEN Append(paymentLogs,
                          [userId |-> userId, customerId |-> customerId,
                           subscriptionId |-> subscriptionId,
                           amount |-> MajorUnits(NominalCents), currency |-> "cad",
                           status |-> subStatus, timestamp |-> ServerTimestamp])
              ELSE paymentLogs
        /\ calls' = Trace(plan, failing, CreateSwallowed(retrieveOk, attachResult))
        /\ UNCHANGED <<subCancelAtPeriodEnd, webhookSecret, now>>

\* ------------------------------------------- POST /api/cancel-subscription
CancelFailCalls == {"none", "subscriptions.update", "users.update"}

\* the processor knows no subscription it never created
CancelFailing(subscriptionId, userId, failCall) ==
    StoreFailing(userId, failCall)
    \cup (IF subscriptionId \in 1..subscriptions THEN {} ELSE {"subscriptions.update"})

\* faulty variant of CancelUpdate: a record already marked is only stamped again
CancelUpdate_OnlyOnce(doc) ==
    IF doc.cancelAtPeriodEnd
    THEN [doc EXCEPT !.updatedAt = ServerTimestamp]
    ELSE [doc EXCEPT !.subscriptionStatus = "canceling",
                     !.cancelAtPeriodEnd = TRUE,
                     !.updatedAt = ServerTimestamp]

\* the update of the user record by cancel-subscription
CancelUpdate(doc) ==
    [doc EXCEPT !.subscriptionStatus = "canceling",
                !.cancelAtPeriodEnd = TRUE,
                !.updatedAt = ServerTimestamp]

CancelSubscription(subscriptionId, userId, failCall) ==
    LET plan == <<"subscriptions.update", "users.update">>
        failing == CancelFailing(subscriptionId, userId, failCall)
        ok == Returned(plan, failing)
        thrown == Thrown(plan, failing)
    IN  /\ failCall \in {"none", thrown}
        /\ Accept([NoRequest EXCEPT !.route = "cancel-subscription",
                                    !.userId = userId,
                                    !.subscriptionId = subscriptionId],
                  IF thrown = "" THEN Json([success |-> "true"]) ELSE JsonError(thrown))
        /\ subCancelAtPeriodEnd' =
              IF "subscriptions.update" \in ok
              THEN subCancelAtPeriodEnd \cup {subscriptionId}
              ELSE subCancelAtPeriodEnd
        /\ users' =
              IF "users.update" \in ok
              THEN [users EXCEPT ![userId] = CancelUpdate(@)]
              ELSE users
        /\ calls' = Trace(plan, failing, <<>>)
        /\ UNCHANGED <<savedCards, paymentLogs, customers, subscriptions,
                       webhookSecret, now>>

\* ----------------------------------------------------------- POST /webhook
WebhookFailCalls == {"none", "users.where.get", "users.update"}

\* stripe.webhooks.constructEvent when a secret is configured, JSON.parse otherwise
Decode == IF webhookSecret THEN "webhooks.constructEvent" ELSE "JSON.parse"

\* faulty variant of DecodeFails: the signature is not checked
DecodeFails_Unverified(signatureValid, body) == body = NotJson

\* constructEvent throws on a signature that does not verify; both throw on a
\* body that is not JSON
DecodeFails(signatureValid, body) ==
    \/ webhookSecret /\ ~signatureValid
    \/ body = NotJson

\* faulty variant of Matching: the query carries no filter
Matching_Everyone(customerId) == {u \in UserIds : users[u].exists}

\* db.collection('users').where('stripeCustomerId', '==', customerId)
Matching(customerId) ==
    {u \in UserIds : users[u].exists /\ users[u].stripeCustomerId = customerId}

\* usersSnapshot.docs[0]
FirstDoc(snapshot) == CHOOSE u \in snapshot : \A v \in snapshot : u <= v

\* the calls of the try block for an event, in order, when none throws
WebhookPlan(event) ==
    <<Decode>>
    \o (IF event.type \in {"invoice.payment_succeeded", "customer.subscription.deleted"}
        THEN <<"users.where.get">>
             \o (IF Matching(event.customer) # {} THEN <<"users.update">> ELSE <<>>)
        ELSE <<>>)

\* the update of the switch case of the event, applied to the matched document
Reconcile(doc, event) ==
    IF event.type = "invoice.payment_succeeded"
    THEN [doc EXCEPT !.subscriptionStatus = "active",
                     !.lastPayment = ServerTimestamp,
                     !.paymentHistory =
                        ArrayUnion(@, [date |-> IsoDate(now),
                                       amount |-> MajorUnits(event.amount_paid),
                                       invoiceId |-> event.invoice])]
    ELSE IF event.type = "customer.subscription.deleted"
    THEN [doc EXCEPT !.subscriptionStatus = "cancelled",
                     !.subscriptionEndedAt = ServerTimestamp]
    ELSE doc

Webhook(signatureValid, body, failCall) ==
    LET plan == WebhookPlan(body)
        failing == {failCall} \cup (IF DecodeFails(signatureValid, body) THEN {Decode} ELSE {})
        ok == Returned(plan, failing)
        thrown == Thrown(plan, failing)
        userDoc == FirstDoc(Matching(body.customer))
    IN  /\ failCall \in {"none", thrown}
        /\ webhookSecret \/ ~signatureValid
        /\ Accept([NoRequest EXCEPT !.route = "webhook",
                                    !.signatureValid = signatureValid,
                                    !.body = body],
                  IF thrown = "" THEN Json([received |-> TRUE]) ELSE WebhookError(thrown))
        /\ users' =
              IF "users.update" \in ok
              THEN [users EXCEPT ![userDoc] = Reconcile(@, body)]
              ELSE users
        /\ calls' = Trace(plan, failing, <<>>)
        /\ UNCHANGED <<savedCards, paymentLogs, customers, subscriptions,
                       subCancelAtPeriodEnd, webhookSecret, now>>

\* ----------------------------------------- GET /api/payment-methods/:userId
ListFailCalls == {"none", "users.get", "paymentMethods.list"}

GetPaymentMethods(userId, failCall) ==
    LET userDoc == users[userId]
        customerId == IF userDoc.exists THEN userDoc.stripeCustomerId ELSE NoCustomer
        plan == <<"users.get">>
                \o (IF customerId # NoCustomer THEN <<"paymentMethods.list">> ELSE <<>>)
        failing == {failCall}
        thrown == Thrown(plan, failing)
    IN  /\ failCall \in {"none", thrown}
        /\ Accept([NoRequest EXCEPT !.route = "payment-methods", !.userId = userId],
                  IF thrown # "" THEN JsonError(thrown)
                  ELSE IF customerId = NoCustomer THEN Json([paymentMethods |-> "empty"])
                  ELSE Json([success |-> "true", paymentMethods |-> "listed"]))
        /\ calls' = Trace(plan, failing, <<>>)
        /\ UNCHANGED <<users, savedCards, paymentLogs, customers, subscriptions,
                       subCancelAtPeriodEnd, webhookSecret, now>>

\* ------------------------------------------------------------------ time
Tick ==
    /\ req = NoRequest
    /\ now < MaxTicks
    /\ now' = now + 1
    /\ UNCHANGED <<users, savedCards, paymentLogs, customers, subscriptions,
                   subCancelAtPeriodEnd, webhookSecret, handled, req, res, calls>>

\* ------------------------------------------------------------ specification
\* the server started over a store of users that never subscribed
Next ==
    \/ /\ Len(handled) < MaxRequests
       /\ \E userId \in UserIds, paymentMethodId \in PaymentMethodIds,
             saveCard \in BOOLEAN, retrieveOk \in BOOLEAN,
             attachResult \in AttachResults, subStatus \in SubStatuses,
             failCall \in CreateFailCalls :
               CreateSubscription(userId, paymentMethodId, saveCard, retrieveOk,
                                  attachResult, subStatus, failCall)
    \/ /\ Len(handled) < MaxRequests
       /\ \E subscriptionId \in SubscriptionIds, userId \in UserIds,
             failCall \in CancelFailCalls :
               CancelSubscription(subscriptionId, userId, failCall)
    \/ /\ Len(handled) < MaxRequests
       /\ \E signatureValid \in BOOLEAN, body \in Bodies, failCall \in WebhookFailCalls :
               Webhook(signatureValid, body, failCall)
    \/ /\ Len(handled) < MaxRequests
       /\ \E userId \in UserIds, failCall \in ListFailCalls :
               GetPaymentMethods(userId, failCall)
    \/ Respond
    \/ Tick

Spec == Init /\ [][Next]_vars

\* the server started over a store in which user 1 subscribed earlier: the
\* store a successful create-subscription of user 1 leaves
SubscribedDoc ==
    [NewUserDoc(TRUE) EXCEPT !.stripeCustomerId = 1,
                             !.subscriptionId = 1,
                             !.subscriptionStatus = "incomplete",
                             !.subscriptionUpdatedAt = 0]

InitLifecycle ==
    /\ users = (1 :> SubscribedDoc) @@ (2 :> NewUserDoc(TRUE))
    /\ savedCards = [u \in UserIds |-> <<>>]
    /\ paymentLogs = <<[userId |-> 1, customerId |-> 1, subscriptionId |-> 1,
                        amount |-> MajorUnits(NominalCents), currency |-> "cad",
                        status |-> "incomplete", timestamp |-> 0]>>
    /\ customers = 1
    /\ subscriptions = 1
    /\ subCancelAtPeriodEnd = {}
    /\ webhookSecret \in BOOLEAN
    /\ now = 0
    /\ handled = <<>>
    /\ req = NoRequest
    /\ res = NoResponse
    /\ calls = <<>>

\* the subscription lifecycle: cancels and webhook deliveries with every
\* outcome, and create-subscription calls in which no call fails
NextLifecycle ==
    \/ /\ Len(handled) < MaxLifecycle
       /\ \E userId \in UserIds, retrieveOk \in BOOLEAN, subStatus \in SubStatuses :
               CreateSubscription(userId, "pm_1", FALSE, retrieveOk, "ok", subStatus, "none")
    \/ /\ Len(handled) < MaxLifecycle
       /\ \E subscriptionId \in SubscriptionIds, userId \in UserIds,
             failCall \in CancelFailCalls :
               CancelSubscription(subscriptionId, userId, failCall)
    \/ /\ Len(handled) < MaxLifecycle
       /\ \E signatureValid \in BOOLEAN, body \in Bodies, failCall \in WebhookFailCalls :
               Webhook(signatureValid, body, failCall)
    \/ Respond
    \/ Tick

SpecLifecycle == InitLifecycle /\ [][NextLifecycle]_vars

\* ================================================================ claims
\* a step in which the handler of the route runs
Handles(route) == req = NoRequest /\ req'.route = route

\* the handler of the route has run and its response is not yet sent
Handled(route) == req.route = route

\* the call whose exception reached the catch of the handler that ran ("" when none)
Caught == IF calls # <<>> /\ calls[Len(calls)].result = "error"
          THEN calls[Len(calls)].call ELSE ""

\* the outcome of a call in the trace of the handler that ran ("skipped" when not made)
Outcome(trace, call) ==
    IF \E i \in DOMAIN trace : trace[i].call = call
    THEN trace[CHOOSE i \in DOMAIN trace : trace[i].call = call].result
    ELSE "skipped"

\* ---------------------------------------------------------------- C1
\* C1: with a webhook signing secret configured, a POST /webhook whose
\* signature does not verify is answered with status 400 and writes nothing
\* to the store, whatever event the body holds.
C1_InvalidSignatureRejected ==
    [][(Handles("webhook") /\ webhookSecret /\ ~req'.signatureValid)
        => (res'.status = 400 /\ store' = store)]_vars

\* an invalid-signature delivery of a payment event for the customer of a
\* stored user was rejected
C1_Witness ==
    /\ webhookSecret
    /\ Handled("webhook")
    /\ ~req.signatureValid
    /\ req.body.type = "invoice.payment_succeeded"
    /\ Matching(req.body.customer) # {}
    /\ res.status = 400

\* ---------------------------------------------------------------- C2
\* C2: in create-subscription an 'already attached' failure of the attach
\* lets the call continue, and any other failure of the attach aborts it: no
\* later step runs and the response is an error.
C2_AttachFailureAborts ==
    Handled("create-subscription") =>
        /\ Outcome(calls, "paymentMethods.attach") = "already_attached"
              => Outcome(calls, "customers.update") # "skipped"
        /\ Outcome(calls, "paymentMethods.attach") = "error"
              => /\ Outcome(calls, "customers.update") = "skipped"
                 /\ Outcome(calls, "subscriptions.create") = "skipped"
                 /\ Outcome(calls, "users.update") = "skipped"
                 /\ Outcome(calls, "payment_logs.add") = "skipped"
                 /\ res.status = 400

\* ---------------------------------------------------------------- C3
\* C3: in every reachable state of a user record, cancelAtPeriodEnd = true
\* implies that subscriptionStatus is 'canceling' or, once a
\* customer.subscription.deleted event has been applied, 'cancelled'.
C3_CancelFlagImpliesCanceling ==
    \A u \in UserIds :
        users[u].cancelAtPeriodEnd =>
            \/ users[u].subscriptionStatus = "canceling"
            \/ /\ users[u].subscriptionStatus = "cancelled"
               /\ users[u].subscriptionEndedAt # NoTime

\* ---------------------------------------------------------------- C4
\* the edges of the status chain, with the self-loop of active
StatusEdges ==
    {<<"none", "incomplete">>, <<"incomplete", "active">>, <<"active", "canceling">>,
     <<"canceling", "cancelled">>, <<"active", "active">>}

\* C4: every change of subscriptionStatus made by cancel-subscription or by a
\* webhook event follows an edge of none -> incomplete -> active -> canceling
\* -> cancelled (or active -> active); in particular no webhook event moves a
\* record from 'canceling' or 'cancelled' back to 'active'.
C4_StatusFollowsChain ==
    [][(Handles("cancel-subscription") \/ Handles("webhook")) =>
        \A u \in UserIds :
            \/ users'[u].subscriptionStatus = users[u].subscriptionStatus
            \/ <<users[u].subscriptionStatus, users'[u].subscriptionStatus>> \in StatusEdges]_vars

\* C4, the case it singles out: no webhook event moves a record from
\* 'canceling' or 'cancelled' back to 'active'.
C4_NoWebhookReactivates ==
    [][Handles("webhook") =>
        \A u \in UserIds :
            users[u].subscriptionStatus \in {"canceling", "cancelled"}
                => users'[u].subscriptionStatus # "active"]_vars

\* ---------------------------------------------------------------- C5
\* the entries of a payment history for an invoice
EntriesIn(history, invoice) ==
    {i \in DOMAIN history : history[i].invoiceId = invoice}

EntriesFor(u, invoice) == EntriesIn(users[u].paymentHistory, invoice)

\* a step in which an invoice.payment_succeeded event is applied to user u
Paid(u) ==
    /\ Handles("webhook")
    /\ req'.body.type = "invoice.payment_succeeded"
    /\ Outcome(calls', "users.update") = "ok"
    /\ Matching(req'.body.customer) # {}
    /\ u = FirstDoc(Matching(req'.body.customer))

\* a step in which user u is paid an invoice whose event was applied to u once before
PaidAgain(u) ==
    /\ Paid(u)
    /\ Cardinality(EntriesFor(u, req'.body.invoice)) = 1
    /\ \A i \in EntriesFor(u, req'.body.invoice) :
          users[u].paymentHistory[i].amount = MajorUnits(req'.body.amount_paid)

\* C5 as stated: an invoice.payment_succeeded event processed a second time
\* leaves two entries for its invoice in the payment history, whatever the
\* two processing times, also when both give the same date value.
C5_TwoEntriesAlways ==
    [][\A u \in UserIds :
        PaidAgain(u) => Cardinality(EntriesIn(users'[u].paymentHistory, req'.body.invoice)) = 2]_vars

\* C5 as amended: the second processing leaves two entries for the invoice
\* when its date value differs from the date of the first entry, and one
\* entry (the array-union skips the equal element) when it is the same.
C5_TwoEntriesWhenDatesDiffer ==
    [][\A u \in UserIds :
        PaidAgain(u) =>
            /\ Cardinality(EntriesIn(users'[u].paymentHistory, req'.body.invoice)) =
                  IF \E i \in EntriesFor(u, req'.body.invoice) :
                        users[u].paymentHistory[i].date = IsoDate(now)
                  THEN 1 ELSE 2
            /\ SubSeq(users'[u].paymentHistory, 1, Len(users[u].paymentHistory))
                  = users[u].paymentHistory]_vars

\* the same event was delivered twice and applied twice to user 1, whose
\* history holds two entries for the invoice
C5_Witness ==
    /\ Len(handled) = 2
    /\ handled[1].request = handled[2].request
    /\ handled[1].request.body.type = "invoice.payment_succeeded"
    /\ handled[1].response.status = 200
    /\ Handled("webhook")
    /\ res.status = 200
    /\ Cardinality(EntriesFor(1, req.body.invoice)) = 2

\* ---------------------------------------------------------------- C6
\* a step in which create-subscription runs for user u
Creates(u) == Handles("create-subscription") /\ req'.userId = u

\* the customer id the user record holds before the step
Stored(u) == IF users[u].exists THEN users[u].stripeCustomerId ELSE NoCustomer

Canceling(u) ==
    users[u].cancelAtPeriodEnd /\ users[u].subscriptionStatus = "canceling"

\* cancel-subscription has run with the subscriptionId and userId of an earlier call
SecondCancel(i) ==
    /\ Handled("cancel-subscription")
    /\ i \in 1..(Len(handled) - 1)
    /\ handled[i].request = req

NoUserOf(customerId) ==
    \A u \in UserIds : ~(users[u].exists /\ users[u].stripeCustomerId = customerId)

\* a step in which an authenticated webhook event has nothing to apply
NothingToApply ==
    /\ Handles("webhook")
    /\ Outcome(calls', Decode) = "ok"
    /\ \/ req'.body.type \notin {"invoice.payment_succeeded", "customer.subscription.deleted"}
       \/ NoUserOf(req'.body.customer)

C9_JsonErrorEverywhere ==
    (req # NoRequest /\ Caught # "") => res = JsonError(Caught)

\* C9 as amended: a failure that reaches the catch of create-subscription,
\* cancel-subscription or payment-methods ends in a JSON response with status
\* 400, success: false and the message; one that reaches the catch of the
\* webhook handler ends in a plain-text response with status 400 and the
\* message, without a success flag; every handler responds.
C9_ErrorResponsePerHandler ==
    req # NoRequest =>
        /\ res.status \in {200, 400}
        /\ res.status = 400 <=> Caught # ""
        /\ Caught # "" =>
              /\ res.error = Caught
              /\ IF Handled("webhook")
                 THEN res.type = "text" /\ res.success = "absent"
                 ELSE res.type = "json" /\ res.success = "false"

\* the store update of a matched webhook event threw and the handler
\* answered in plain text
C9_Witness ==
    /\ Handled("webhook")
    /\ Caught = "users.update"
    /\ res = WebhookError("users.update")

\* ---------------------------------------------------------------- C10
\* create-subscription ran for user u after a call for u whose write of
\* the user record threw
Repeats(u) ==
    /\ Creates(u)
    /\ \E i \in DOMAIN handled :
          /\ handled[i].request.route = "create-subscription"
          /\ handled[i].request.userId = u
          /\ handled[i].response.error = "users.update"

\* a success response follows the write of its ids onto the record and one log entry
Persisted(u) ==
    res'.success = "true" =>
        /\ users'[u].stripeCustomerId = res'.customerId
        /\ users'[u].subscriptionId = res'.subscriptionId
        /\ users'[u].subscriptionStatus = res'.subStatus
        /\ Len(paymentLogs') = Len(paymentLogs) + 1
        /\ paymentLogs'[Len(paymentLogs')].subscriptionId = res'.subscriptionId

====
